---- MODULE Spec2Model ----
(***************************************************************************)
(* Model of the PBN domain checker (src/main.py): the candidate builder,   *)
(* the per-domain prober check_one_domain, and the scheduler run() that    *)
(* fans the probers out under an asyncio.Semaphore and collects their      *)
(* results with asyncio.as_completed.                                      *)
(*                                                                         *)
(* Strings are sequences of one-character strings, so that strip(),        *)
(* lower(), startswith(), split() and the `in` test are computed as        *)
(* Python computes them.  None is the empty sequence and a present value   *)
(* x is <<x>>.                                                             *)
(***************************************************************************)
EXTENDS Integers, Sequences, FiniteSets, TLC

\* ------------------------------------------------------------------------
\* Bounds of the model
\* ------------------------------------------------------------------------

\* longest input file (number of lines) the scheduler is run on
MaxLines == 2

\* longest host part of the raw inputs given to the candidate builder
MaxHost == 2

\* ------------------------------------------------------------------------
\* Program constants
\* ------------------------------------------------------------------------

\* MAX_CONCURRENCY = 20 in the source; scaled to 2 so that input lists
\* longer than the cap fit within MaxLines
MAX_CONCURRENCY == 2

\* resp.text[:4000]
SNIPPET_LEN == 4000

None == <<>>

Some(x) == <<x>>

\* ------------------------------------------------------------------------
\* Python string operations
\* ------------------------------------------------------------------------

Whitespace == {" ", "\t", "\n", "\r"}

UpperCase == <<"A", "B", "C", "D", "E", "F", "G", "H", "I", "J", "K", "L", "M",
               "N", "O", "P", "Q", "R", "S", "T", "U", "V", "W", "X", "Y", "Z">>

LowerCase == <<"a", "b", "c", "d", "e", "f", "g", "h", "i", "j", "k", "l", "m",
               "n", "o", "p", "q", "r", "s", "t", "u", "v", "w", "x", "y", "z">>

\* one character of str.lower()
LowerChar(c) ==
    IF \E k \in 1..26 : UpperCase[k] = c
    THEN LowerCase[CHOOSE k \in 1..26 : UpperCase[k] = c]
    ELSE c

\* str.lower()
lower(s) == [k \in 1..Len(s) |-> LowerChar(s[k])]

\* str.strip(): drop leading and trailing whitespace
strip(s) ==
    LET keep == {k \in 1..Len(s) : s[k] \notin Whitespace}
    IN  IF keep = {} THEN <<>>
        ELSE LET first == CHOOSE k \in keep : \A m \in keep : k <= m
                 last  == CHOOSE k \in keep : \A m \in keep : m <= k
             IN  SubSeq(s, first, last)

\* str.startswith(prefix)
startswith(s, prefix) ==
    /\ Len(prefix) <= Len(s)
    /\ SubSeq(s, 1, Len(prefix)) = prefix

\* the positions at which sub occurs in s
Occurrences(s, sub) ==
    {k \in 1..(Len(s) - Len(sub) + 1) : SubSeq(s, k, k + Len(sub) - 1) = sub}

\* `sub in s`
Contains(s, sub) == Occurrences(s, sub) # {}

\* s.split(sep, 1)[1]: what follows the first occurrence of sep
\* (only evaluated where sep occurs in s)
AfterFirst(s, sep) ==
    LET p == CHOOSE k \in Occurrences(s, sep) : \A m \in Occurrences(s, sep) : k <= m
    IN  SubSeq(s, p + Len(sep), Len(s))

HTTP_PREFIX == <<"h", "t", "t", "p", ":", "/", "/">>

HTTPS_PREFIX == <<"h", "t", "t", "p", "s", ":", "/", "/">>

SCHEME_SEP == <<":", "/", "/">>

\* ------------------------------------------------------------------------
\* Candidate builder
\* ------------------------------------------------------------------------

\* variant: the plain-http candidate is tried first
build_candidate_urls_http_first(raw0) ==
    LET raw == strip(raw0)
        low == lower(raw)
    IN  IF raw = <<>> THEN <<>>
        ELSE IF startswith(low, HTTP_PREFIX) THEN <<raw>>
        ELSE IF startswith(low, HTTPS_PREFIX)
             THEN <<raw, HTTP_PREFIX \o AfterFirst(raw, SCHEME_SEP)>>
        ELSE <<HTTP_PREFIX \o raw, HTTPS_PREFIX \o raw>>

\* variant: the scheme is recognised in lower case only
build_candidate_urls_case_sensitive(raw0) ==
    LET raw == strip(raw0)
    IN  IF raw = <<>> THEN <<>>
        ELSE IF startswith(raw, HTTP_PREFIX) THEN <<raw>>
        ELSE IF startswith(raw, HTTPS_PREFIX)
             THEN <<raw, HTTP_PREFIX \o AfterFirst(raw, SCHEME_SEP)>>
        ELSE <<HTTPS_PREFIX \o raw, HTTP_PREFIX \o raw>>

\* variant: a plain-http input gets an https fallback too
build_candidate_urls_symmetric(raw0) ==
    LET raw == strip(raw0)
        low == lower(raw)
    IN  IF raw = <<>> THEN <<>>
        ELSE IF startswith(low, HTTP_PREFIX)
             THEN <<raw, HTTPS_PREFIX \o AfterFirst(raw, SCHEME_SEP)>>
        ELSE IF startswith(low, HTTPS_PREFIX)
             THEN <<raw, HTTP_PREFIX \o AfterFirst(raw, SCHEME_SEP)>>
        ELSE <<HTTPS_PREFIX \o raw, HTTP_PREFIX \o raw>>

\* variant: an input that already has a scheme gets no candidate
build_candidate_urls_none_for_url(raw0) ==
    LET raw == strip(raw0)
        low == lower(raw)
    IN  IF raw = <<>> THEN <<>>
        ELSE IF Contains(low, SCHEME_SEP) THEN <<>>
        ELSE <<HTTPS_PREFIX \o raw, HTTP_PREFIX \o raw>>

build_candidate_urls(raw0) ==
    \* raw = raw.strip(), computed once
    CHOOSE built \in
        { LET low == lower(raw)
          IN  IF raw = <<>> THEN <<>>
              ELSE IF startswith(low, HTTP_PREFIX) THEN <<raw>>
              ELSE IF startswith(low, HTTPS_PREFIX)
                   THEN <<raw, HTTP_PREFIX \o AfterFirst(raw, SCHEME_SEP)>>
              ELSE <<HTTPS_PREFIX \o raw, HTTP_PREFIX \o raw>>
          : raw \in {strip(raw0)} } : TRUE

\* ------------------------------------------------------------------------
\* Content classifier
\* ------------------------------------------------------------------------

WP_MARKERS ==
    << <<"w", "p", "-", "c", "o", "n", "t", "e", "n", "t">>,
       <<"w", "p", "-", "i", "n", "c", "l", "u", "d", "e", "s">>,
       <<"w", "p", "-", "j", "s", "o", "n">>,
       <<"c", "o", "n", "t", "e", "n", "t", "=", "\"", "w", "o", "r", "d", "p", "r", "e", "s", "s">>,
       <<"g", "e", "n", "e", "r", "a", "t", "o", "r", "\"", " ", "c", "o", "n", "t", "e", "n", "t", "=", "\"", "w", "o", "r", "d", "p", "r", "e", "s", "s">> >>

PARKING_KEYWORDS ==
    << <<"b", "u", "y", " ", "t", "h", "i", "s", " ", "d", "o", "m", "a", "i", "n">>,
       <<"t", "h", "i", "s", " ", "d", "o", "m", "a", "i", "n", " ", "i", "s", " ", "f", "o", "r", " ", "s", "a", "l", "e">>,
       <<"d", "o", "m", "a", "i", "n", " ", "i", "s", " ", "p", "a", "r", "k", "e", "d">>,
       <<"p", "a", "r", "k", "i", "n", "g", "c", "r", "e", "w">>,
       <<"s", "e", "d", "o">>,
       <<"a", "f", "t", "e", "r", "n", "i", "c">>,
       <<"d", "a", "n", ".", "c", "o", "m">>,
       <<"e", "x", "p", "i", "r", "e", "d", " ", "d", "o", "m", "a", "i", "n">>,
       <<"h", "a", "s", " ", "e", "x", "p", "i", "r", "e", "d">>,
       <<"r", "e", "n", "e", "w", " ", "i", "t", " ", "n", "o", "w">> >>

is_wordpress(html_text) ==
    IF html_text = <<>> THEN FALSE
    ELSE LET low == lower(html_text)
         IN  \E k \in 1..Len(WP_MARKERS) : Contains(low, WP_MARKERS[k])

is_parking_page(html_text) ==
    IF html_text = <<>> THEN FALSE
    ELSE LET low == lower(html_text)
         IN  \E k \in 1..Len(PARKING_KEYWORDS) : Contains(low, PARKING_KEYWORDS[k])

\* ------------------------------------------------------------------------
\* Transport-error classifier
\* ------------------------------------------------------------------------

\* str(exc): the message of an exception, "None" when exc is None
ExcStr(exc) == IF exc = None THEN <<"N", "o", "n", "e">> ELSE exc[1]

\* variant: the timeout markers are tested before the DNS markers
classify_transport_error_timeout_first(exc) ==
    LET msg == lower(ExcStr(exc))
    IN  IF \/ Contains(msg, <<"t", "i", "m", "e", "d", " ", "o", "u", "t">>)
           \/ Contains(msg, <<"t", "i", "m", "e", "o", "u", "t">>)
        THEN <<"ERROR_TIDAK_BISA_DIBUKA", None, None, <<"t", "i", "m", "e", "o", "u", "t", ":", " ">> \o msg>>
        ELSE IF \/ Contains(msg, <<"n", "a", "m", "e", " ", "o", "r", " ", "s", "e", "r", "v", "i", "c", "e", " ", "n", "o", "t", " ", "k", "n", "o", "w", "n">>)
                \/ Contains(msg, <<"n", "x", "d", "o", "m", "a", "i", "n">>)
                \/ Contains(msg, <<"n", "o", "t", " ", "k", "n", "o", "w", "n">>)
        THEN <<"PARKED_ATAU_MUNGKIN_EXPIRED", None, None, <<"d", "n", "s", "_", "e", "r", "r", "o", "r", ":", " ">> \o msg>>
        ELSE IF \/ Contains(msg, <<"s", "s", "l">>)
                \/ Contains(msg, <<"c", "e", "r", "t", "i", "f", "i", "c", "a", "t", "e">>)
        THEN <<"ERROR_TIDAK_BISA_DIBUKA", None, None, <<"s", "s", "l", "_", "e", "r", "r", "o", "r", ":", " ">> \o msg>>
        ELSE <<"ERROR_TIDAK_BISA_DIBUKA", None, None, msg>>

\* returns <<status, http_status, final_url, notes>>
classify_transport_error(exc) ==
    LET msg == lower(ExcStr(exc))
    IN  IF \/ Contains(msg, <<"n", "a", "m", "e", " ", "o", "r", " ", "s", "e", "r", "v", "i", "c", "e", " ", "n", "o", "t", " ", "k", "n", "o", "w", "n">>)
           \/ Contains(msg, <<"n", "x", "d", "o", "m", "a", "i", "n">>)
           \/ Contains(msg, <<"n", "o", "t", " ", "k", "n", "o", "w", "n">>)
        THEN <<"PARKED_ATAU_MUNGKIN_EXPIRED", None, None, <<"d", "n", "s", "_", "e", "r", "r", "o", "r", ":", " ">> \o msg>>
        ELSE IF \/ Contains(msg, <<"t", "i", "m", "e", "d", " ", "o", "u", "t">>)
                \/ Contains(msg, <<"t", "i", "m", "e", "o", "u", "t">>)
        THEN <<"ERROR_TIDAK_BISA_DIBUKA", None, None, <<"t", "i", "m", "e", "o", "u", "t", ":", " ">> \o msg>>
        ELSE IF \/ Contains(msg, <<"s", "s", "l">>)
                \/ Contains(msg, <<"c", "e", "r", "t", "i", "f", "i", "c", "a", "t", "e">>)
        THEN <<"ERROR_TIDAK_BISA_DIBUKA", None, None, <<"s", "s", "l", "_", "e", "r", "r", "o", "r", ":", " ">> \o msg>>
        ELSE <<"ERROR_TIDAK_BISA_DIBUKA", None, None, msg>>

\* ------------------------------------------------------------------------
\* Response classifier
\* ------------------------------------------------------------------------

Digits == <<"0", "1", "2", "3", "4", "5", "6", "7", "8", "9">>

RECURSIVE IntStr(_)
\* str(n) for n >= 0, as the f-string formats http_status
IntStr(n) == IF n < 10 THEN <<Digits[n + 1]>>
             ELSE IntStr(n \div 10) \o <<Digits[(n % 10) + 1]>>

\* f"{what} ({used_scheme})"
Note(what, used_scheme) == what \o <<" ", "(">> \o used_scheme \o <<")">>

\* resp.text[:4000], "" when reading resp.text raises (text = None)
Snippet(resp) ==
    IF resp.text = None THEN <<>>
    ELSE SubSeq(resp.text[1], 1, IF Len(resp.text[1]) < SNIPPET_LEN
                                 THEN Len(resp.text[1]) ELSE SNIPPET_LEN)

\* variant: a 2xx page is tested for parking keywords before WordPress markers
classify_response_parking_first(resp, used_scheme) ==
    LET http_status  == resp.status_code
        final_url    == resp.url
        text_snippet == Snippet(resp)
    IN  IF 200 <= http_status /\ http_status < 300
        THEN IF is_parking_page(text_snippet)
             THEN <<"PARKED_ATAU_MUNGKIN_EXPIRED", Some(http_status), Some(final_url),
                    Note(<<"p", "a", "r", "k", "i", "n", "g", "_", "k", "e", "y", "w", "o", "r", "d", "s", "_", "f", "o", "u", "n", "d">>, used_scheme)>>
             ELSE IF is_wordpress(text_snippet)
             THEN <<"AKTIF_WORDPRESS", Some(http_status), Some(final_url),
                    Note(<<"w", "p", "_", "m", "a", "r", "k", "e", "r", "s", "_", "f", "o", "u", "n", "d">>, used_scheme)>>
             ELSE <<"AKTIF_NON_WORDPRESS", Some(http_status), Some(final_url),
                    Note(<<"n", "o", "_", "w", "p", "_", "m", "a", "r", "k", "e", "r", "s">>, used_scheme)>>
        ELSE IF 300 <= http_status /\ http_status < 400
        THEN <<"AKTIF_NON_WORDPRESS", Some(http_status), Some(final_url),
               Note(<<"3", "x", "x", "_", "s", "t", "a", "t", "u", "s">>, used_scheme)>>
        ELSE IF 400 <= http_status /\ http_status < 600
        THEN IF is_parking_page(text_snippet)
             THEN <<"PARKED_ATAU_MUNGKIN_EXPIRED", Some(http_status), Some(final_url),
                    Note(<<"h", "t", "t", "p", "_">> \o IntStr(http_status) \o <<"_", "p", "a", "r", "k", "i", "n", "g">>, used_scheme)>>
             ELSE <<"ERROR_TIDAK_BISA_DIBUKA", Some(http_status), Some(final_url),
                    Note(<<"h", "t", "t", "p", "_">> \o IntStr(http_status), used_scheme)>>
        ELSE <<"ERROR_TIDAK_BISA_DIBUKA", Some(http_status), Some(final_url),
               Note(<<"u", "n", "e", "x", "p", "e", "c", "t", "e", "d", "_", "s", "t", "a", "t", "u", "s">>, used_scheme)>>

\* returns <<status, http_status, final_url, notes>>
classify_response(resp, used_scheme) ==
    LET http_status  == resp.status_code
        final_url    == resp.url
        text_snippet == Snippet(resp)
    IN  IF 200 <= http_status /\ http_status < 300
        THEN IF is_wordpress(text_snippet)
             THEN <<"AKTIF_WORDPRESS", Some(http_status), Some(final_url),
                    Note(<<"w", "p", "_", "m", "a", "r", "k", "e", "r", "s", "_", "f", "o", "u", "n", "d">>, used_scheme)>>
             ELSE IF is_parking_page(text_snippet)
             THEN <<"PARKED_ATAU_MUNGKIN_EXPIRED", Some(http_status), Some(final_url),
                    Note(<<"p", "a", "r", "k", "i", "n", "g", "_", "k", "e", "y", "w", "o", "r", "d", "s", "_", "f", "o", "u", "n", "d">>, used_scheme)>>
             ELSE <<"AKTIF_NON_WORDPRESS", Some(http_status), Some(final_url),
                    Note(<<"n", "o", "_", "w", "p", "_", "m", "a", "r", "k", "e", "r", "s">>, used_scheme)>>
        ELSE IF 300 <= http_status /\ http_status < 400
        THEN <<"AKTIF_NON_WORDPRESS", Some(http_status), Some(final_url),
               Note(<<"3", "x", "x", "_", "s", "t", "a", "t", "u", "s">>, used_scheme)>>
        ELSE IF 400 <= http_status /\ http_status < 600
        THEN IF is_parking_page(text_snippet)
             THEN <<"PARKED_ATAU_MUNGKIN_EXPIRED", Some(http_status), Some(final_url),
                    Note(<<"h", "t", "t", "p", "_">> \o IntStr(http_status) \o <<"_", "p", "a", "r", "k", "i", "n", "g">>, used_scheme)>>
             ELSE <<"ERROR_TIDAK_BISA_DIBUKA", Some(http_status), Some(final_url),
                    Note(<<"h", "t", "t", "p", "_">> \o IntStr(http_status), used_scheme)>>
        ELSE <<"ERROR_TIDAK_BISA_DIBUKA", Some(http_status), Some(final_url),
               Note(<<"u", "n", "e", "x", "p", "e", "c", "t", "e", "d", "_", "s", "t", "a", "t", "u", "s">>, used_scheme)>>

\* ------------------------------------------------------------------------
\* Inputs and the network the requests go to
\* ------------------------------------------------------------------------

\* the input file of section 8 of the specification
ExampleFile == << <<"h", "t", "t", "p", ":", "/", "/", "a", ".", "t", "e", "s", "t">>, <<>>, <<"#", " ", "c", "o", "m", "m", "e", "n", "t">>, <<"b", ".", "t", "e", "s", "t">> >>

\* an input file with more domains than MAX_CONCURRENCY, one of them twice
OverCapFile == << <<"B", ".", "t">>, <<"h", "t", "t", "p", ":", "/", "/", "a">>, <<"B", ".", "t">> >>

\* the lines the generated input files are made of: a plain-HTTP URL, a
\* bare domain (padded, upper case), a comment and a whitespace-only line
LineChoices == { <<"h", "t", "t", "p", ":", "/", "/", "a">>, <<" ", "B", ".", "t">>, <<"#", "c", " ">>, <<" ", "\t">> }

RECURSIVE SeqsUpTo(_, _)
\* the sequences over S of length at most n
SeqsUpTo(S, n) ==
    IF n = 0 THEN {<<>>}
    ELSE LET shorter == SeqsUpTo(S, n - 1)
         IN  shorter \cup {Append(s, x) : s \in shorter, x \in S}

InputFiles == SeqsUpTo(LineChoices, MaxLines) \cup {ExampleFile, OverCapFile}

\* where a followed redirect may end
REDIRECT_URL == <<"h", "t", "t", "p", "s", ":", "/", "/", "r">>

\* the responses client.get may return for a request to url; the host
\* b.test also serves a plain page
Responses(url) ==
    { [status_code |-> 200, url |-> url, text |-> Some(<<"<", "a", " ", "h", "r", "e", "f", "=", "/", "W", "p", "-", "J", "s", "o", "n", ">">>)],
      [status_code |-> 404, url |-> REDIRECT_URL, text |-> Some(<<"S", "e", "d", "o">>)],
      [status_code |-> 999, url |-> url, text |-> None] }
    \cup IF Contains(url, <<"b", ".", "t", "e", "s", "t">>)
         THEN { [status_code |-> 200, url |-> url, text |-> Some(<<"<", "p", ">", "H", "i", "<", "/", "p", ">">>)] }
         ELSE {}

\* the messages of the exceptions (subclasses of Exception) client.get may
\* raise for a request to url: a timeout everywhere, and a failed DNS lookup
\* for the host b.test
Errors(url) ==
    IF Contains(url, <<"b", ".", "t", "e", "s", "t">>)
    THEN { <<"T", "i", "m", "e", "d", " ", "o", "u", "t">>, <<"N", "X", "D", "O", "M", "A", "I", "N">> }
    ELSE { <<"T", "i", "m", "e", "d", " ", "o", "u", "t">> }

\* ------------------------------------------------------------------------
\* State
\* ------------------------------------------------------------------------

VARIABLES
    lines,      \* the lines of domains_file
    mainpc,     \* run(): "start", "gather", "done", "failed", "crashed"
    domains,    \* run(): the stripped non-empty lines
    sem,        \* the value of asyncio.Semaphore(MAX_CONCURRENCY)
    pc,         \* pc[i]: task i is "pending", "inflight" or "done"
    holding,    \* holding[i]: task i is inside `async with sem`
    urls,       \* urls[i]: check_one_domain's candidate list
    idx,        \* idx[i]: position of check_one_domain's loop over urls
    last_exc,   \* last_exc[i]: None or the message of the last exception
    ret,        \* ret[i]: what task i returned or raised
    sent,       \* sent[i]: the URLs task i passed to client.get, in order
    got,        \* got[i]: how each of those requests ended
    raised,     \* raised[i]: the messages of the exceptions check_one_domain caught
    completed,  \* as_completed: finished tasks not yet awaited by run()
    taken,      \* number of futures run() has awaited
    results,    \* run(): results
    printed,    \* the progress lines printed so far
    report,     \* what was written to OUTPUT_FILE and the summary
    call        \* a call of a pure function on its own: argument and result

vars == <<lines, mainpc, domains, sem, pc, holding, urls, idx, last_exc, ret, sent,
          got, raised, completed, taken, results, printed, report, call>>

Tasks == 1..Len(domains)

\* nothing has run yet
Fresh ==
    /\ domains = <<>>
    /\ sem = 0
    /\ pc = <<>>
    /\ holding = <<>>
    /\ urls = <<>>
    /\ idx = <<>>
    /\ last_exc = <<>>
    /\ ret = <<>>
    /\ sent = <<>>
    /\ got = <<>>
    /\ raised = <<>>
    /\ completed = <<>>
    /\ taken = 0
    /\ results = <<>>
    /\ printed = <<>>
    /\ report = None

\* python main.py domains_file, for every input file
Init ==
    /\ lines \in InputFiles
    /\ mainpc = "start"
    /\ call = None
    /\ Fresh

\* ------------------------------------------------------------------------
\* run(): reading the domains and creating the tasks
\* ------------------------------------------------------------------------

\* variant: blank lines are stripped but kept
StrippedNonEmpty_keeps_blank(ls) == [j \in 1..Len(ls) |-> strip(ls[j])]

RECURSIVE StrippedNonEmpty(_)
\* [line.strip() for line in f if line.strip()]
StrippedNonEmpty(ls) ==
    IF ls = <<>> THEN <<>>
    ELSE IF strip(Head(ls)) # <<>>
         THEN <<strip(Head(ls))>> \o StrippedNonEmpty(Tail(ls))
         ELSE StrippedNonEmpty(Tail(ls))

ReadDomains ==
    /\ mainpc = "start"
    /\ mainpc' = "gather"
    /\ domains' = StrippedNonEmpty(lines)
    /\ sem' = MAX_CONCURRENCY
    /\ pc' = [i \in 1..Len(domains') |-> "pending"]
    /\ holding' = [i \in 1..Len(domains') |-> FALSE]
    /\ urls' = [i \in 1..Len(domains') |-> <<>>]
    /\ idx' = [i \in 1..Len(domains') |-> 0]
    /\ last_exc' = [i \in 1..Len(domains') |-> None]
    /\ ret' = [i \in 1..Len(domains') |-> [kind |-> "running"]]
    /\ sent' = [i \in 1..Len(domains') |-> <<>>]
    /\ got' = [i \in 1..Len(domains') |-> <<>>]
    /\ raised' = [i \in 1..Len(domains') |-> <<>>]
    /\ results' = <<>>
    /\ UNCHANGED <<call, lines, completed, taken, printed, report>>

\* ------------------------------------------------------------------------
\* worker(d) and check_one_domain
\* ------------------------------------------------------------------------

\* variant: off by one, a slot is handed out at value 0
CanAcquire_at_zero(value) == value >= 0

\* sem.acquire() does not block
CanAcquire(value) == value > 0

\* sem.acquire()
Acquired(value) == value - 1

\* variant: the slot is not given back
Released_never(value) == value

\* sem.release()
Released(value) == value + 1

\* variant: comment lines are not recognised
Skipped_only_empty(raw) == strip(raw) = <<>>

\* `not domain or domain.startswith("#")`, on the stripped domain
Skipped(raw) ==
    LET domain == strip(raw)
    IN  domain = <<>> \/ startswith(domain, <<"#">>)

\* variant: every response is tagged https
UsedScheme_always_https(url) == <<"h", "t", "t", "p", "s">>

UsedScheme(url) ==
    IF startswith(lower(url), HTTPS_PREFIX) THEN <<"h", "t", "t", "p", "s">> ELSE <<"h", "t", "t", "p">>

\* variant: the final URL is left out of the dict
Outcome_without_final_url(raw, c) ==
    [kind |-> "outcome",
     value |-> [domain |-> strip(raw), status |-> c[1], http_status |-> c[2],
                final_url |-> None, notes |-> c[4]]]

\* the dict check_one_domain returns
Outcome(raw, c) ==
    \* status, http_status, final_url, notes = c, computed once
    CHOOSE built \in
        { [kind |-> "outcome",
           value |-> [domain |-> strip(raw), status |-> v[1], http_status |-> v[2],
                      final_url |-> v[3], notes |-> v[4]]] : v \in {c} } : TRUE

\* the task of worker i ends with r after leaving `async with sem`, whose
\* value was v inside the block
Finish(i, r, v) ==
    /\ pc' = [pc EXCEPT ![i] = "done"]
    /\ ret' = [ret EXCEPT ![i] = r]
    /\ holding' = [holding EXCEPT ![i] = FALSE]
    /\ sem' = Released(v)
    /\ completed' = Append(completed, i)

\* check_one_domain suspends in client.get for candidate k of us, inside
\* `async with sem`, whose value is v
Request(i, us, k, v) ==
    /\ pc' = [pc EXCEPT ![i] = "inflight"]
    /\ idx' = [idx EXCEPT ![i] = k]
    /\ sent' = [sent EXCEPT ![i] = Append(sent[i], us[k])]
    /\ holding' = [holding EXCEPT ![i] = TRUE]
    /\ sem' = v
    /\ UNCHANGED <<ret, completed>>

\* the loop over us goes on after candidate k: the next request, or the
\* outcome of classify_transport_error(last_exc) when no candidate is left
Advance(i, us, k, exc, v) ==
    IF k < Len(us)
    THEN Request(i, us, k + 1, v)
    ELSE /\ Finish(i, Outcome(domains[i], classify_transport_error(exc)), v)
         /\ UNCHANGED <<idx, sent>>

\* worker i is admitted and check_one_domain runs up to its first await
Begin(i) ==
    /\ mainpc \in {"gather", "failed"}
    /\ pc[i] = "pending"
    /\ CanAcquire(sem)
    /\ IF Skipped(domains[i])
       THEN /\ Finish(i, [kind |-> "none"], Acquired(sem))
            /\ UNCHANGED <<urls, idx, sent>>
       ELSE /\ urls' = [urls EXCEPT ![i] = build_candidate_urls(strip(domains[i]))]
            /\ Advance(i, urls'[i], 0, last_exc[i], Acquired(sem))
    /\ UNCHANGED <<call, lines, mainpc, domains, last_exc, got, raised, taken, results,
                   printed, report>>

\* variant: a response with an error status counts as a failed request
Respond_error_status_falls_back(i) ==
    /\ pc[i] = "inflight"
    /\ \E resp \in Responses(urls[i][idx[i]]) :
          IF resp.status_code >= 400
          THEN Advance(i, urls[i], idx[i], last_exc[i], sem)
          ELSE /\ Finish(i, Outcome(domains[i],
                            classify_response(resp, UsedScheme(urls[i][idx[i]]))), sem)
               /\ UNCHANGED <<idx, sent>>
    /\ got' = [got EXCEPT ![i] = Append(got[i], "response")]
    /\ UNCHANGED raised
    /\ UNCHANGED <<call, lines, mainpc, domains, urls, last_exc, taken,
                   results, printed, report>>

\* client.get returns a response: classify and return
Respond(i) ==
    /\ pc[i] = "inflight"
    /\ \E resp \in Responses(urls[i][idx[i]]) :
          Finish(i, Outcome(domains[i],
                            classify_response(resp, UsedScheme(urls[i][idx[i]]))), sem)
    /\ got' = [got EXCEPT ![i] = Append(got[i], "response")]
    /\ UNCHANGED raised
    /\ UNCHANGED <<call, lines, mainpc, domains, urls, idx, last_exc, sent, taken,
                   results, printed, report>>

\* variant: the exception is not caught and leaves check_one_domain
Fail_uncaught(i) ==
    /\ pc[i] = "inflight"
    /\ got' = [got EXCEPT ![i] = Append(got[i], "error")]
    /\ UNCHANGED raised
    /\ Finish(i, [kind |-> "raised"], sem)
    /\ UNCHANGED <<call, lines, mainpc, domains, urls, idx, last_exc, sent, taken,
                   results, printed, report>>

\* variant: only the first exception is kept in last_exc
Fail_keeps_first(i) ==
    /\ pc[i] = "inflight"
    /\ got' = [got EXCEPT ![i] = Append(got[i], "error")]
    /\ \E msg \in Errors(urls[i][idx[i]]) :
          /\ last_exc' = [last_exc EXCEPT ![i] = IF last_exc[i] = None THEN Some(msg) ELSE last_exc[i]]
          /\ raised' = [raised EXCEPT ![i] = Append(raised[i], msg)]
          /\ Advance(i, urls[i], idx[i], last_exc'[i], sem)
    /\ UNCHANGED <<call, lines, mainpc, domains, urls, taken, results, printed, report>>

\* client.get raises an Exception: it is recorded and the loop goes on
Fail(i) ==
    /\ pc[i] = "inflight"
    /\ got' = [got EXCEPT ![i] = Append(got[i], "error")]
    /\ \E msg \in Errors(urls[i][idx[i]]) :
          /\ last_exc' = [last_exc EXCEPT ![i] = Some(msg)]
          /\ raised' = [raised EXCEPT ![i] = Append(raised[i], msg)]
          /\ Advance(i, urls[i], idx[i], last_exc'[i], sem)
    /\ UNCHANGED <<call, lines, mainpc, domains, urls, taken, results, printed, report>>

\* client.get raises something `except Exception` does not catch (a
\* BaseException such as asyncio.CancelledError): it leaves check_one_domain
Crash(i) ==
    /\ pc[i] = "inflight"
    /\ got' = [got EXCEPT ![i] = Append(got[i], "fatal")]
    /\ UNCHANGED raised
    /\ Finish(i, [kind |-> "raised"], sem)
    /\ UNCHANGED <<call, lines, mainpc, domains, urls, idx, last_exc, sent, taken,
                   results, printed, report>>

\* ------------------------------------------------------------------------
\* run(): collecting the results
\* ------------------------------------------------------------------------

\* `if res:`
Truthy(res) == res.kind = "outcome"

\* f"[{res['status']}] {res['domain']} -> {res['final_url'] or '-'}"
ProgressLine(r) ==
    <<r.status, r.domain, IF r.final_url = None \/ r.final_url[1] = <<>>
                          THEN <<"-">> ELSE r.final_url[1]>>

RECURSIVE CountStatus(_, _)
CountStatus(rs, s) ==
    IF rs = <<>> THEN 0
    ELSE (IF Head(rs).status = s THEN 1 ELSE 0) + CountStatus(Tail(rs), s)

\* Counter(r["status"] for r in results)
StatusCounter(rs) ==
    [s \in {rs[k].status : k \in 1..Len(rs)} |-> CountStatus(rs, s)]

\* variant: the finished task stays in the queue and is awaited again
Awaited_again(queue) == queue

\* as_completed hands each finished task out once: the queue after `await coro`
Awaited(queue) == Tail(queue)

\* one turn of `for coro in asyncio.as_completed(tasks)`
Collect ==
    /\ mainpc = "gather"
    /\ completed # <<>>
    /\ completed' = Awaited(completed)
    /\ taken' = taken + 1
    /\ LET res == ret[Head(completed)]
       IN  IF res.kind = "raised"
           THEN /\ mainpc' = "failed"
                /\ UNCHANGED <<results, printed>>
           ELSE /\ mainpc' = mainpc
                /\ IF Truthy(res)
                   THEN /\ results' = Append(results, res.value)
                        /\ printed' = Append(printed, ProgressLine(res.value))
                   ELSE UNCHANGED <<results, printed>>
    /\ UNCHANGED <<call, lines, domains, sem, pc, holding, urls, idx, last_exc, ret,
                   sent, got, raised, report>>

\* variant: the CSV file and the summary are written while tasks are running
WriteReport_early ==
    /\ mainpc = "gather"
    /\ mainpc' = "done"
    /\ report' = Some([rows |-> results, summary |-> StatusCounter(results)])
    /\ UNCHANGED <<call, lines, domains, sem, pc, holding, urls, idx, last_exc, ret,
                   sent, got, raised, completed, taken, results, printed>>

\* the loop is over: the CSV file and the summary
WriteReport ==
    /\ mainpc = "gather"
    /\ taken = Len(domains)
    /\ mainpc' = "done"
    /\ report' = Some([rows |-> results, summary |-> StatusCounter(results)])
    /\ UNCHANGED <<call, lines, domains, sem, pc, holding, urls, idx, last_exc, ret,
                   sent, got, raised, completed, taken, results, printed>>

\* the exception left run(): asyncio.run cancels the tasks still running,
\* each leaves `async with sem` with CancelledError
Shutdown ==
    /\ mainpc = "failed"
    /\ mainpc' = "crashed"
    /\ pc' = [i \in Tasks |-> "done"]
    /\ ret' = [i \in Tasks |-> IF pc[i] = "done" THEN ret[i] ELSE [kind |-> "cancelled"]]
    /\ got' = [i \in Tasks |-> IF pc[i] = "inflight" THEN Append(got[i], "cancelled")
                                                      ELSE got[i]]
    /\ UNCHANGED raised
    /\ holding' = [i \in Tasks |-> FALSE]
    /\ sem' = sem + Cardinality({i \in Tasks : holding[i]})
    /\ UNCHANGED <<call, lines, domains, urls, idx, last_exc, sent, completed, taken,
                   results, printed, report>>

Next ==
    \/ ReadDomains
    \/ \E i \in Tasks : Begin(i)
    \/ \E i \in Tasks : Respond(i)
    \/ \E i \in Tasks : Fail(i)
    \/ \E i \in Tasks : Crash(i)
    \/ Collect
    \/ WriteReport
    \/ Shutdown

Spec == Init /\ [][Next]_vars

\* ------------------------------------------------------------------------
\* The candidate builder on its own
\* ------------------------------------------------------------------------

HostChars == {"a", "B", ":", "/"}

\* what the raw inputs start with, after the padding
RawPrefixes ==
    { <<>>, <<"h", "t", "t", "p", ":", "/", "/">>, <<"h", "t", "t", "p", "s", ":", "/", "/">>, <<"H", "T", "T", "P", ":", "/", "/">>, <<"h", "T", "T", "p", "S", ":", "/", "/">>, <<"h", "t", "t", "p", ":", "/">>, <<"f", "t", "p", ":", "/", "/">>, <<"#">> }

\* padding, prefix, host, padding
RawInputs ==
    { lead \o prefix \o host \o trail :
        lead \in {<<>>, <<" ">>}, prefix \in RawPrefixes,
        host \in SeqsUpTo(HostChars, MaxHost), trail \in {<<>>, <<"\n">>} }

InitBuild ==
    /\ lines = <<>>
    /\ mainpc = "call"
    /\ call \in {Some([arg |-> raw, out |-> None]) : raw \in RawInputs}
    /\ Fresh

\* urls = build_candidate_urls(raw)
Build ==
    /\ mainpc = "call"
    /\ call # None
    /\ call[1].out = None
    /\ call' = Some([arg |-> call[1].arg, out |-> Some(build_candidate_urls(call[1].arg))])
    /\ UNCHANGED <<lines, mainpc, domains, sem, pc, holding, urls, idx, last_exc,
                   ret, sent, got, raised, completed, taken, results, printed, report>>

NextBuild == Build

SpecBuild == InitBuild /\ [][NextBuild]_vars

\* ------------------------------------------------------------------------
\* The classifiers on their own
\* ------------------------------------------------------------------------

\* the status codes go up to 100 * MaxHundreds + 99
MaxHundreds == 6

StatusCodes == {100 * h + o : h \in 0..MaxHundreds, o \in {0, 4, 99}}

\* response bodies, each with whether it carries a WordPress marker and a
\* parking keyword within its first SNIPPET_LEN characters; text = None is a
\* body whose decoding raises
ShortBodies ==
    { [text |-> None, wp |-> FALSE, park |-> FALSE],
      [text |-> Some(<<>>), wp |-> FALSE, park |-> FALSE],
      [text |-> Some(<<"H", "e", "l", "l", "o", " ", "W", "o", "r", "d", "P", "r", "e", "s", "s", " ", "f", "a", "n", "s">>), wp |-> FALSE, park |-> FALSE],
      [text |-> Some(<<"w", "p", " ", "c", "o", "n", "t", "e", "n", "t", ",", " ", "p", "a", "r", "k", "i", "n", "g", " ", "c", "r", "e", "w">>), wp |-> FALSE, park |-> FALSE],
      [text |-> Some(<<"<", "a", " ", "W", "P", "-", "C", "O", "N", "T", "E", "N", "T", ">">>), wp |-> TRUE, park |-> FALSE],
      [text |-> Some(<<"<", "a", " ", "W", "p", "-", "I", "n", "c", "l", "u", "d", "e", "s", ">">>), wp |-> TRUE, park |-> FALSE],
      [text |-> Some(<<"<", "a", " ", "W", "P", "-", "J", "S", "O", "N", ">">>), wp |-> TRUE, park |-> FALSE],
      [text |-> Some(<<"<", "a", " ", "C", "o", "n", "t", "e", "n", "t", "=", "\"", "W", "o", "r", "d", "p", "r", "e", "s", "s", ">">>), wp |-> TRUE, park |-> FALSE],
      [text |-> Some(<<"<", "a", " ", "G", "E", "N", "E", "R", "A", "T", "O", "R", "\"", " ", "C", "O", "N", "T", "E", "N", "T", "=", "\"", "W", "O", "R", "D", "P", "R", "E", "S", "S", ">">>), wp |-> TRUE, park |-> FALSE],
      [text |-> Some(<<"<", "p", ">", "B", "U", "Y", " ", "T", "H", "I", "S", " ", "D", "O", "M", "A", "I", "N", "<", "/", "p", ">">>), wp |-> FALSE, park |-> TRUE],
      [text |-> Some(<<"<", "p", ">", "T", "h", "i", "s", " ", "D", "o", "m", "a", "i", "n", " ", "I", "s", " ", "F", "o", "r", " ", "S", "a", "l", "e", "<", "/", "p", ">">>), wp |-> FALSE, park |-> TRUE],
      [text |-> Some(<<"<", "p", ">", "D", "O", "M", "A", "I", "N", " ", "I", "S", " ", "P", "A", "R", "K", "E", "D", "<", "/", "p", ">">>), wp |-> FALSE, park |-> TRUE],
      [text |-> Some(<<"<", "p", ">", "P", "a", "r", "k", "i", "n", "g", "c", "r", "e", "w", "<", "/", "p", ">">>), wp |-> FALSE, park |-> TRUE],
      [text |-> Some(<<"<", "p", ">", "S", "E", "D", "O", "<", "/", "p", ">">>), wp |-> FALSE, park |-> TRUE],
      [text |-> Some(<<"<", "p", ">", "A", "f", "t", "e", "r", "n", "i", "c", "<", "/", "p", ">">>), wp |-> FALSE, park |-> TRUE],
      [text |-> Some(<<"<", "p", ">", "D", "A", "N", ".", "C", "O", "M", "<", "/", "p", ">">>), wp |-> FALSE, park |-> TRUE],
      [text |-> Some(<<"<", "p", ">", "E", "x", "p", "i", "r", "e", "d", " ", "D", "o", "m", "a", "i", "n", "<", "/", "p", ">">>), wp |-> FALSE, park |-> TRUE],
      [text |-> Some(<<"<", "p", ">", "H", "A", "S", " ", "E", "X", "P", "I", "R", "E", "D", "<", "/", "p", ">">>), wp |-> FALSE, park |-> TRUE],
      [text |-> Some(<<"<", "p", ">", "R", "e", "n", "e", "w", " ", "I", "t", " ", "N", "o", "w", "<", "/", "p", ">">>), wp |-> FALSE, park |-> TRUE],
      [text |-> Some(<<"S", "e", "d", "o", " ", "<", "l", "i", "n", "k", " ", "h", "r", "e", "f", "=", "/", "w", "p", "-", "i", "n", "c", "l", "u", "d", "e", "s", "/", "x", ">">>), wp |-> TRUE, park |-> TRUE],
      [text |-> Some(<<"/", "W", "P", "-", "J", "S", "O", "N", "/", " ", "T", "h", "i", "s", " ", "D", "o", "m", "a", "i", "n", " ", "I", "s", " ", "F", "o", "r", " ", "S", "a", "l", "e">>), wp |-> TRUE, park |-> TRUE] }

\* n characters without any marker
Pad(n) == [k \in 1..n |-> "x"]

\* bodies with a marker that ends at the cut of the snippet, or is cut by it
LongBodies ==
    { [text |-> Some(Pad(SNIPPET_LEN - 10) \o <<"W", "P", "-", "C", "o", "n", "t", "e", "n", "t">>), wp |-> TRUE, park |-> FALSE],
      [text |-> Some(Pad(SNIPPET_LEN - 9) \o <<"W", "P", "-", "C", "o", "n", "t", "e", "n", "t">>), wp |-> FALSE, park |-> FALSE],
      [text |-> Some(Pad(SNIPPET_LEN - 4) \o <<"S", "E", "D", "O">>), wp |-> FALSE, park |-> TRUE],
      [text |-> Some(Pad(SNIPPET_LEN - 3) \o <<"S", "E", "D", "O">> \o <<" ", "w", "p", "-", "j", "s", "o", "n">>), wp |-> FALSE, park |-> FALSE] }

ResponseCall(c, b, s) ==
    [fn |-> "classify_response",
     resp |-> [status_code |-> c, url |-> REDIRECT_URL, text |-> b.text],
     used_scheme |-> s, wp |-> b.wp, park |-> b.park]

ResponseCalls ==
    {ResponseCall(c, b, s) : c \in StatusCodes, b \in ShortBodies, s \in {<<"h", "t", "t", "p", "s">>, <<"h", "t", "t", "p">>}}
    \cup {ResponseCall(c, b, <<"h", "t", "t", "p", "s">>) : c \in {200, 404}, b \in LongBodies}

\* the parts an error message is made of: <<>> is a missing part
DnsParts == { <<>>, <<"N", "a", "m", "e", " ", "o", "r", " ", "s", "e", "r", "v", "i", "c", "e", " ", "n", "o", "t", " ", "k", "n", "o", "w", "n">>, <<"N", "X", "D", "O", "M", "A", "I", "N">>, <<"h", "o", "s", "t", " ", "N", "o", "t", " ", "K", "n", "o", "w", "n">> }

TimeoutParts == { <<>>, <<"t", "i", "m", "e", "d", " ", "o", "u", "t">>, <<"C", "o", "n", "n", "e", "c", "t", " ", "T", "i", "m", "e", "O", "u", "t">> }

SslParts == { <<>>, <<"S", "S", "L">>, <<"b", "a", "d", " ", "C", "e", "r", "t", "i", "f", "i", "c", "a", "t", "e">> }

\* "Err a; b; c"
Message(a, b, c) == <<"E", "r", "r", " ">> \o a \o <<";", " ">> \o b \o <<";", " ">> \o c

\* the messages with the three parts in any order
ErrorCall(d, t, s) ==
    { [fn |-> "classify_transport_error", exc |-> Some(Message(p[1], p[2], p[3])),
       dns |-> d # <<>>, timeout |-> t # <<>>, ssl |-> s # <<>>] :
        p \in { <<d, t, s>>, <<d, s, t>>, <<t, d, s>>, <<t, s, d>>, <<s, d, t>>, <<s, t, d>> } }

ErrorCalls ==
    UNION {ErrorCall(d, t, s) : d \in DnsParts, t \in TimeoutParts, s \in SslParts}

InitClassify ==
    /\ lines = <<>>
    /\ mainpc = "classify"
    /\ call \in {Some([arg |-> a, out |-> None]) : a \in ResponseCalls \cup ErrorCalls}
    /\ Fresh

\* status, http_status, final_url, notes = classify_response(resp, used_scheme)
ClassifyResponse ==
    /\ mainpc = "classify"
    /\ call[1].out = None
    /\ call[1].arg.fn = "classify_response"
    /\ call' = Some([arg |-> call[1].arg,
                     out |-> Some(classify_response(call[1].arg.resp, call[1].arg.used_scheme))])
    /\ UNCHANGED <<lines, mainpc, domains, sem, pc, holding, urls, idx, last_exc,
                   ret, sent, got, raised, completed, taken, results, printed, report>>

\* status, http_status, final_url, notes = classify_transport_error(last_exc)
ClassifyError ==
    /\ mainpc = "classify"
    /\ call[1].out = None
    /\ call[1].arg.fn = "classify_transport_error"
    /\ call' = Some([arg |-> call[1].arg,
                     out |-> Some(classify_transport_error(call[1].arg.exc))])
    /\ UNCHANGED <<lines, mainpc, domains, sem, pc, holding, urls, idx, last_exc,
                   ret, sent, got, raised, completed, taken, results, printed, report>>

NextClassify ==
    \/ ClassifyResponse
    \/ ClassifyError

SpecClassify == InitClassify /\ [][NextClassify]_vars

\* ------------------------------------------------------------------------
\* Properties of the scheduler and the prober (specification Spec)
\* ------------------------------------------------------------------------

Holders == {i \in Tasks : holding[i]}

Taxonomy == {"AKTIF_WORDPRESS", "AKTIF_NON_WORDPRESS",
             "PARKED_ATAU_MUNGKIN_EXPIRED", "ERROR_TIDAK_BISA_DIBUKA"}

\* a line that is blank or a comment once trimmed
IgnoredLine(line) == strip(line) = <<>> \/ Head(strip(line)) = "#"

\* how many results carry the domain d
ResultsFor(d) == Cardinality({k \in 1..Len(results) : results[k].domain = d})

\* how many input lines trim to d
LinesFor(d) == Cardinality({j \in 1..Len(lines) : strip(lines[j]) = d})

\* C1: at most MAX_CONCURRENCY probes hold an admission slot, and a probe
\* has a request in flight only while it holds one
C1_AtMostKHoldSlot ==
    /\ Cardinality(Holders) <= MAX_CONCURRENCY
    /\ \A i \in Tasks : pc[i] = "inflight" => holding[i]

\* every slot is taken while a further probe waits for one
C1_Witness ==
    /\ Cardinality(Holders) = MAX_CONCURRENCY
    /\ \E i \in Tasks : pc[i] = "pending" /\ ~Skipped(domains[i])
    /\ \A i \in Holders : pc[i] = "inflight"

\* C2: when run() has completed, the results hold exactly one outcome for
\* each input line that is neither blank nor a comment
C2_OneOutcomePerLine ==
    mainpc = "done" =>
        /\ Len(results) = Cardinality({j \in 1..Len(lines) : ~IgnoredLine(lines[j])})
        /\ \A j \in 1..Len(lines) :
              ~IgnoredLine(lines[j]) => ResultsFor(strip(lines[j])) = LinesFor(strip(lines[j]))
        /\ \A k \in 1..Len(results) :
              \E j \in 1..Len(lines) :
                  ~IgnoredLine(lines[j]) /\ results[k].domain = strip(lines[j])

\* a completed run over three domains, collected in another order than the
\* input order
C2_Witness ==
    /\ mainpc = "done"
    /\ Len(results) = 3
    /\ results[1].domain # domains[1]

\* C3: a probe that has finished holds no slot, the slots handed out are
\* exactly the ones held, and all of them are free once every probe has
\* finished
C3_SlotsReleased ==
    mainpc # "start" =>
        /\ \A i \in Tasks : pc[i] = "done" => ~holding[i]
        /\ sem + Cardinality(Holders) = MAX_CONCURRENCY
        /\ (\A i \in Tasks : pc[i] = "done") => sem = MAX_CONCURRENCY

\* all probes have finished, one by an outcome, one skipped, one by an
\* error raised inside it
C3_Witness ==
    /\ mainpc # "start"
    /\ \A i \in Tasks : pc[i] = "done"
    /\ \E i \in Tasks : ret[i].kind = "outcome"
    /\ \E i \in Tasks : ret[i].kind = "none"
    /\ \E i \in Tasks : ret[i].kind = "raised"
    /\ sem = MAX_CONCURRENCY

\* C4: the requests of a probe are the candidates in list order, every
\* request but the last one failed, and a response ends the probe
C4_InOrderStopAtResponse ==
    \A i \in Tasks :
        /\ Len(sent[i]) <= Len(urls[i])
        /\ sent[i] = SubSeq(urls[i], 1, Len(sent[i]))
        /\ Len(got[i]) <= Len(sent[i])
        /\ Len(sent[i]) <= Len(got[i]) + 1
        /\ \A j \in 1..(Len(sent[i]) - 1) : got[i][j] = "error"
        /\ \A j \in 1..Len(got[i]) :
              got[i][j] = "response" => pc[i] = "done" /\ Len(sent[i]) = j

\* a 404 response to the first of two candidates ended the probe
C4_Witness ==
    \E i \in Tasks :
        /\ Len(urls[i]) = 2
        /\ got[i] = <<"response">>
        /\ pc[i] = "done"
        /\ ret[i].kind = "outcome"
        /\ ret[i].value.http_status = Some(404)
        /\ sent[i] = <<urls[i][1]>>

\* C5: a probe issues at most two requests, and for an input that starts
\* with http:// exactly one, to that URL
C5_AtMostTwoRequests ==
    \A i \in Tasks :
        /\ Len(sent[i]) <= 2
        /\ startswith(lower(domains[i]), HTTP_PREFIX) =>
              /\ Len(sent[i]) <= 1
              /\ \A k \in 1..Len(sent[i]) :
                    /\ sent[i][k] = domains[i]
                    /\ ~startswith(lower(sent[i][k]), HTTPS_PREFIX)
              /\ ret[i].kind \in {"outcome", "raised"} => Len(sent[i]) = 1

\* the only request of a plain-http input failed and the probe ended
C5_Witness ==
    \E i \in Tasks :
        /\ startswith(lower(domains[i]), HTTP_PREFIX)
        /\ got[i] = <<"error">>
        /\ ret[i].kind = "outcome"
        /\ sent[i] = <<domains[i]>>

\* C6: a probe of a domain that is not skipped, all of whose requests ended
\* in a response or a request failure, ends by returning one outcome with a
\* status of the taxonomy and raises nothing
C6_AlwaysOneOutcome ==
    \A i \in Tasks :
        ( /\ pc[i] = "done"
          /\ ~IgnoredLine(domains[i])
          /\ ret[i].kind # "cancelled"
          /\ \A j \in 1..Len(got[i]) : got[i][j] \in {"response", "error"} )
        => /\ ret[i].kind = "outcome"
           /\ ret[i].value.status \in Taxonomy
           /\ ret[i].value.domain = domains[i]

\* both candidates failed and the probe still returned an outcome
C6_Witness ==
    \E i \in Tasks :
        /\ got[i] = <<"error", "error">>
        /\ ret[i].kind = "outcome"
        /\ ret[i].value.status \in Taxonomy
        /\ ret[i].value.http_status = None

\* C7: when run() has ended, every domain that is not skipped and whose own
\* probe did not raise has an outcome in the results, also when the probe of
\* another domain raised
C7_FailureDoesNotAbortBatch ==
    mainpc \in {"done", "crashed"} =>
        \A i \in Tasks :
            (~IgnoredLine(domains[i]) /\ ret[i].kind # "raised")
            => \E k \in 1..Len(results) : results[k].domain = domains[i]

\* C8: a line that is blank or a comment once trimmed gets no request and
\* no outcome, and the example file yields exactly two outcomes
C8_IgnoredLinesSkipped ==
    /\ \A i \in Tasks :
          /\ domains[i] # <<>>
          /\ IgnoredLine(domains[i]) =>
                /\ sent[i] = <<>>
                /\ ret[i].kind \in {"running", "none", "cancelled"}
    /\ \A k \in 1..Len(results) : ~IgnoredLine(results[k].domain)
    /\ \A j \in 1..Len(lines) :
          IgnoredLine(lines[j]) => ResultsFor(strip(lines[j])) = 0
    /\ (lines = ExampleFile /\ mainpc = "done") =>
          /\ Len(results) = 2
          /\ {results[k].domain : k \in 1..Len(results)}
                = {ExampleFile[1], ExampleFile[4]}

\* the run over the example file has completed, its comment line went
\* through a worker and returned nothing
C8_Witness ==
    /\ lines = ExampleFile
    /\ mainpc = "done"
    /\ Len(results) = 2
    /\ \E i \in Tasks : IgnoredLine(domains[i]) /\ ret[i].kind = "none"

\* ------------------------------------------------------------------------
\* Properties of the candidate builder (specification SpecBuild)
\* ------------------------------------------------------------------------

Built == call # None /\ call[1].out # None

BuiltArg == strip(call[1].arg)

BuiltUrls == call[1].out[1]

\* the trimmed input starts with http:// or https://, in any letter case
HasScheme(raw) ==
    \/ startswith(lower(strip(raw)), HTTP_PREFIX)
    \/ startswith(lower(strip(raw)), HTTPS_PREFIX)

\* C9, as stated: every input without an explicit scheme gets exactly two
\* URLs, https:// first and http:// second, both followed by the trimmed input
C9_AsStated ==
    (Built /\ ~HasScheme(call[1].arg)) =>
        BuiltUrls = <<HTTPS_PREFIX \o BuiltArg, HTTP_PREFIX \o BuiltArg>>

\* C9, amended: every input without an explicit scheme that is not blank
\* gets exactly two URLs, https:// first and http:// second, both followed
\* by the trimmed input
C9_TwoUrlsHttpsFirst ==
    (Built /\ ~HasScheme(call[1].arg) /\ BuiltArg # <<>>) =>
        /\ Len(BuiltUrls) = 2
        /\ BuiltUrls[1] = HTTPS_PREFIX \o BuiltArg
        /\ BuiltUrls[2] = HTTP_PREFIX \o BuiltArg

\* a padded input without a scheme has been built
C9_Witness ==
    /\ Built
    /\ ~HasScheme(call[1].arg)
    /\ BuiltArg # <<>>
    /\ BuiltArg # call[1].arg
    /\ Len(BuiltUrls) = 2

\* C10: an https:// input, in any letter case, gets itself and then its
\* host with http:// as scheme; an http:// input gets itself only
C10_SchemePrefixed ==
    Built =>
        /\ startswith(lower(BuiltArg), HTTPS_PREFIX) =>
              BuiltUrls = <<BuiltArg, HTTP_PREFIX \o SubSeq(BuiltArg, 9, Len(BuiltArg))>>
        /\ startswith(lower(BuiltArg), HTTP_PREFIX) =>
              /\ BuiltUrls = <<BuiltArg>>
              /\ \A k \in 1..Len(BuiltUrls) :
                    ~startswith(lower(BuiltUrls[k]), HTTPS_PREFIX)

\* an https input in mixed case with a host has been built
C10_Witness ==
    /\ Built
    /\ startswith(BuiltArg, <<"h", "T", "T", "p", "S", ":", "/", "/">>)
    /\ Len(BuiltArg) > 8
    /\ Len(BuiltUrls) = 2
    /\ startswith(BuiltUrls[2], HTTP_PREFIX)

\* ------------------------------------------------------------------------
\* Properties of the classifiers (specification SpecClassify)
\* ------------------------------------------------------------------------

Classified(fn) == call # None /\ call[1].out # None /\ call[1].arg.fn = fn

ClassArg == call[1].arg

ClassOut == call[1].out[1]

\* the status the decision table of section 4.3 gives
TableStatus(code, wp, park) ==
    CASE code \in 200..299 /\ wp -> "AKTIF_WORDPRESS"
      [] code \in 200..299 /\ ~wp /\ park -> "PARKED_ATAU_MUNGKIN_EXPIRED"
      [] code \in 200..299 /\ ~wp /\ ~park -> "AKTIF_NON_WORDPRESS"
      [] code \in 300..399 -> "AKTIF_NON_WORDPRESS"
      [] code \in 400..599 /\ park -> "PARKED_ATAU_MUNGKIN_EXPIRED"
      [] code \in 400..599 /\ ~park -> "ERROR_TIDAK_BISA_DIBUKA"
      [] OTHER -> "ERROR_TIDAK_BISA_DIBUKA"

\* C11: classify_response returns the status of the decision table for every
\* status code and every combination of signatures, and the code observed
C11_DecisionTable ==
    Classified("classify_response") =>
        /\ ClassOut[1] = TableStatus(ClassArg.resp.status_code, ClassArg.wp, ClassArg.park)
        /\ ClassOut[2] = Some(ClassArg.resp.status_code)

\* a 200 page with both signatures has been classified as WordPress
C11_Witness ==
    /\ Classified("classify_response")
    /\ ClassArg.resp.status_code = 200
    /\ ClassArg.wp
    /\ ClassArg.park
    /\ ClassOut[1] = "AKTIF_WORDPRESS"
    /\ ClassOut[2] = Some(200)

\* C12, as stated: DNS markers are tested first and give
\* PARKED_ATAU_MUNGKIN_EXPIRED with notes prefixed dns_error:, every other
\* message gives ERROR_TIDAK_BISA_DIBUKA with notes prefixed timeout:, else
\* ssl_error:, else the message itself; http_status and final_url are absent
C12_AsStated ==
    Classified("classify_transport_error") =>
        /\ ClassOut[2] = None
        /\ ClassOut[3] = None
        /\ ClassArg.dns =>
              /\ ClassOut[1] = "PARKED_ATAU_MUNGKIN_EXPIRED"
              /\ startswith(ClassOut[4], <<"d", "n", "s", "_", "e", "r", "r", "o", "r", ":">>)
        /\ ~ClassArg.dns =>
              /\ ClassOut[1] = "ERROR_TIDAK_BISA_DIBUKA"
              /\ ClassArg.timeout => startswith(ClassOut[4], <<"t", "i", "m", "e", "o", "u", "t", ":">>)
              /\ (~ClassArg.timeout /\ ClassArg.ssl) => startswith(ClassOut[4], <<"s", "s", "l", "_", "e", "r", "r", "o", "r", ":">>)
              /\ (~ClassArg.timeout /\ ~ClassArg.ssl) => ClassOut[4] = ClassArg.exc[1]

\* C12, amended: as stated, but the notes of a message without any marker
\* are the message in lower case, and the prefixes are followed by the
\* message in lower case
C12_MarkerOrder ==
    Classified("classify_transport_error") =>
        /\ ClassOut[2] = None
        /\ ClassOut[3] = None
        /\ ClassArg.dns =>
              /\ ClassOut[1] = "PARKED_ATAU_MUNGKIN_EXPIRED"
              /\ ClassOut[4] = <<"d", "n", "s", "_", "e", "r", "r", "o", "r", ":", " ">> \o lower(ClassArg.exc[1])
        /\ ~ClassArg.dns =>
              /\ ClassOut[1] = "ERROR_TIDAK_BISA_DIBUKA"
              /\ ClassArg.timeout => ClassOut[4] = <<"t", "i", "m", "e", "o", "u", "t", ":", " ">> \o lower(ClassArg.exc[1])
              /\ (~ClassArg.timeout /\ ClassArg.ssl) =>
                    ClassOut[4] = <<"s", "s", "l", "_", "e", "r", "r", "o", "r", ":", " ">> \o lower(ClassArg.exc[1])
              /\ (~ClassArg.timeout /\ ~ClassArg.ssl) => ClassOut[4] = lower(ClassArg.exc[1])

\* a message with a timeout marker before its DNS marker and an SSL marker
\* has been classified as a DNS error
C12_Witness ==
    /\ Classified("classify_transport_error")
    /\ ClassArg.exc = Some(Message(<<"t", "i", "m", "e", "d", " ", "o", "u", "t">>, <<"N", "X", "D", "O", "M", "A", "I", "N">>, <<"S", "S", "L">>))
    /\ ClassOut[1] = "PARKED_ATAU_MUNGKIN_EXPIRED"
    /\ startswith(ClassOut[4], <<"d", "n", "s", "_", "e", "r", "r", "o", "r", ":", " ", "e", "r", "r", " ", "t", "i", "m", "e", "d", " ", "o", "u", "t", ";", " ", "n", "x", "d", "o", "m", "a", "i", "n">>)

\* ------------------------------------------------------------------------
\* The run under fair scheduling, every request ending in a response or in a
\* request failure (the timeout of client.get, TIMEOUT_SECONDS per request)
\* ------------------------------------------------------------------------

\* the longest generated file of the fair runs
MaxLiveLines == 1

\* the files of the fair runs: the generated ones, the example of the
\* README and a file of more domains than MAX_CONCURRENCY
LiveFiles == SeqsUpTo(LineChoices, MaxLiveLines) \cup {ExampleFile, OverCapFile}

\* the most tasks a file of LiveFiles leads to
MaxTasks == IF MaxLiveLines > 3 THEN MaxLiveLines ELSE 3

InitLive ==
    /\ lines \in LiveFiles
    /\ mainpc = "start"
    /\ call = None
    /\ Fresh

NextLive ==
    \/ ReadDomains
    \/ \E i \in Tasks : Begin(i)
    \/ \E i \in Tasks : Respond(i)
    \/ \E i \in Tasks : Fail(i)
    \/ Collect
    \/ WriteReport

\* The event loop runs whatever is ready, and client.get has a timeout, so
\* a request in flight ends: the run does not stop while a step is possible.
\* No order among the ready steps is assumed.
Fairness == WF_vars(NextLive)

SpecLive == InitLive /\ [][NextLive]_vars /\ Fairness

\* ------------------------------------------------------------------------
\* Properties of the scheduler and the probers, continued (specification Spec)
\* ------------------------------------------------------------------------

\* probe i asked https first, which failed, and then http, which answered
HttpFallback(i) ==
    /\ pc[i] = "done"
    /\ got[i] = <<"error", "response">>
    /\ startswith(lower(sent[i][1]), HTTPS_PREFIX)
    /\ startswith(lower(sent[i][2]), HTTP_PREFIX)

\* a response of status 200 whose body has no WordPress marker and no
\* parking keyword
PlainPage(resp) ==
    /\ resp.status_code = 200
    /\ ~is_wordpress(Snippet(resp))
    /\ ~is_parking_page(Snippet(resp))

\* C13: when the https request fails and the http request returns a
\* response, the outcome is classify_response of a response to the http
\* candidate with the scheme tag http, AKTIF_NON_WORDPRESS when that is a
\* 200 page without signatures, and the probe sent exactly two requests
C13_FallbackToHttp ==
    \A i \in Tasks :
        HttpFallback(i) =>
            /\ Len(sent[i]) = 2
            /\ sent[i] = urls[i]
            /\ \E resp \in Responses(sent[i][2]) :
                  /\ ret[i] = Outcome(domains[i], classify_response(resp, <<"h", "t", "t", "p">>))
                  /\ PlainPage(resp) =>
                        /\ ret[i].value.status = "AKTIF_NON_WORDPRESS"
                        /\ ret[i].value.notes = <<"n", "o", "_", "w", "p", "_", "m", "a", "r", "k", "e", "r", "s", " ", "(", "h", "t", "t", "p", ")">>

\* https://b.test failed, http://b.test answered 200 with a plain page and
\* the probe returned AKTIF_NON_WORDPRESS for the http URL
C13_Witness ==
    \E i \in Tasks :
        /\ HttpFallback(i)
        /\ sent[i] = <<<<"h", "t", "t", "p", "s", ":", "/", "/", "b", ".", "t", "e", "s", "t">>, <<"h", "t", "t", "p", ":", "/", "/", "b", ".", "t", "e", "s", "t">>>>
        /\ ret[i].kind = "outcome"
        /\ ret[i].value.status = "AKTIF_NON_WORDPRESS"
        /\ ret[i].value.http_status = Some(200)
        /\ ret[i].value.final_url = Some(<<"h", "t", "t", "p", ":", "/", "/", "b", ".", "t", "e", "s", "t">>)
        /\ ret[i].value.notes = <<"n", "o", "_", "w", "p", "_", "m", "a", "r", "k", "e", "r", "s", " ", "(", "h", "t", "t", "p", ")">>

\* the probes of the domain d that have sent a request
ProbesOf(d) == {i \in Tasks : domains[i] = d /\ sent[i] # <<>>}

\* C14: the results hold at most one outcome per domain value and no domain
\* value is probed more than once, whatever the input file
C14_OneOutcomePerDomain ==
    /\ \A k \in 1..Len(results) : ResultsFor(results[k].domain) <= 1
    /\ \A i \in Tasks : Cardinality(ProbesOf(domains[i])) <= 1

\* C15: each outcome is printed in the step that collects it, in the order
\* in which the probes completed and while other probes are still running;
\* the summary exists only when every probe has completed and been collected
C15_EmittedAsCollected ==
    /\ [](printed = [k \in 1..Len(results) |-> ProgressLine(results[k])])
    /\ [](report # None =>
            /\ \A i \in Tasks : pc[i] = "done"
            /\ completed = <<>>
            /\ taken = Len(domains)
            /\ report[1].summary = StatusCounter(results))
    /\ [][(results' # results \/ printed' # printed) =>
            /\ completed # <<>>
            /\ ret[Head(completed)].kind = "outcome"
            /\ results' = Append(results, ret[Head(completed)].value)
            /\ printed' = Append(printed, ProgressLine(ret[Head(completed)].value))
            /\ report' = None]_vars

\* the outcome of one probe has been printed while another probe has a
\* request in flight and no summary exists
C15_Witness ==
    /\ Len(printed) = 1
    /\ printed[1] = ProgressLine(results[1])
    /\ \E i \in Tasks : pc[i] = "inflight"
    /\ report = None

\* the workers that have entered `async with sem`: a task cancelled while
\* it waited for a slot never entered it
Admitted ==
    {i \in Tasks : \/ pc[i] = "inflight"
                   \/ pc[i] = "done" /\ (ret[i].kind # "cancelled" \/ got[i] # <<>>)}

\* the workers whose check_one_domain has sent a request
Requesting == {i \in Tasks : sent[i] # <<>>}

NonBlankLines == {j \in 1..Len(lines) : strip(lines[j]) # <<>>}

DomainLines == {j \in 1..Len(lines) : ~IgnoredLine(lines[j])}

\* C16, as stated: when run() has written its report, the number of workers
\* that were started and admitted through the semaphore equals the number of
\* input lines that are neither blank nor comments
C16_AsStated ==
    mainpc = "done" => Cardinality(Admitted) = Cardinality(DomainLines)

\* C16, amended: the workers admitted through the semaphore are never more
\* than the non-blank lines and those that send a request never more than
\* the lines that are neither blank nor comments; when run() has written its
\* report both counts are equal to these numbers of lines
C16_ProbesLaunched ==
    /\ Requesting \subseteq Admitted
    /\ Cardinality(Admitted) <= Cardinality(NonBlankLines)
    /\ Cardinality(Requesting) <= Cardinality(DomainLines)
    /\ mainpc = "done" =>
          /\ Cardinality(Admitted) = Cardinality(NonBlankLines)
          /\ Cardinality(Requesting) = Cardinality(DomainLines)

\* the run over the example file has ended: three workers went through the
\* semaphore, one of them for the comment line, and two sent requests
C16_Witness ==
    /\ lines = ExampleFile
    /\ mainpc = "done"
    /\ Cardinality(Admitted) = 3
    /\ Cardinality(Requesting) = 2
    /\ Cardinality(DomainLines) = 2

\* every candidate of probe i was requested and every request failed
AllFailed(i) ==
    /\ pc[i] = "done"
    /\ urls[i] # <<>>
    /\ Len(raised[i]) = Len(urls[i])

DNS_ERROR == <<"N", "X", "D", "O", "M", "A", "I", "N">>

TIMEOUT_ERROR == <<"T", "i", "m", "e", "d", " ", "o", "u", "t">>

\* C17: when every candidate failed the outcome is classify_transport_error
\* of the last exception alone: a DNS failure of https followed by a timeout
\* of http gives ERROR_TIDAK_BISA_DIBUKA, the reverse order gives
\* PARKED_ATAU_MUNGKIN_EXPIRED
C17_LastErrorDecides ==
    \A i \in Tasks :
        AllFailed(i) =>
            /\ ret[i] = Outcome(domains[i],
                                classify_transport_error(Some(raised[i][Len(raised[i])])))
            /\ raised[i] = <<DNS_ERROR, TIMEOUT_ERROR>> =>
                  /\ ret[i].value.status = "ERROR_TIDAK_BISA_DIBUKA"
                  /\ ret[i].value.notes = <<"t", "i", "m", "e", "o", "u", "t", ":", " ", "t", "i", "m", "e", "d", " ", "o", "u", "t">>
            /\ raised[i] = <<TIMEOUT_ERROR, DNS_ERROR>> =>
                  /\ ret[i].value.status = "PARKED_ATAU_MUNGKIN_EXPIRED"
                  /\ ret[i].value.notes = <<"d", "n", "s", "_", "e", "r", "r", "o", "r", ":", " ", "n", "x", "d", "o", "m", "a", "i", "n">>

\* https://b.test failed with a DNS error, http://b.test timed out and the
\* probe returned ERROR_TIDAK_BISA_DIBUKA
C17_Witness ==
    \E i \in Tasks :
        /\ AllFailed(i)
        /\ sent[i] = <<<<"h", "t", "t", "p", "s", ":", "/", "/", "b", ".", "t", "e", "s", "t">>, <<"h", "t", "t", "p", ":", "/", "/", "b", ".", "t", "e", "s", "t">>>>
        /\ raised[i] = <<DNS_ERROR, TIMEOUT_ERROR>>
        /\ ret[i].kind = "outcome"
        /\ ret[i].value.status = "ERROR_TIDAK_BISA_DIBUKA"

\* probe i has returned an outcome
Returned(i) == pc[i] = "done" /\ ret[i].kind = "outcome"

\* C19: in every outcome http_status is absent exactly when final_url is
\* absent, both are absent exactly when every candidate request failed, and
\* an outcome that follows a response carries both
C19_StatusAndUrlTogether ==
    /\ \A i \in Tasks :
          Returned(i) =>
              /\ ret[i].value.http_status = None <=> ret[i].value.final_url = None
              /\ ret[i].value.http_status = None <=> AllFailed(i)
              /\ ret[i].value.http_status = None <=>
                    (\A j \in 1..Len(got[i]) : got[i][j] = "error")
              /\ (\E j \in 1..Len(got[i]) : got[i][j] = "response") =>
                    /\ ret[i].value.http_status # None
                    /\ ret[i].value.final_url # None
    /\ \A k \in 1..Len(results) :
          results[k].http_status = None <=> results[k].final_url = None

\* the results hold an outcome without status and URL, of a probe whose
\* requests all failed, and one with both, of a probe that got a response
C19_Witness ==
    /\ \E i \in Tasks :
          /\ Returned(i) /\ AllFailed(i)
          /\ ret[i].value.http_status = None /\ ret[i].value.final_url = None
          /\ \E k \in 1..Len(results) : results[k] = ret[i].value
    /\ \E i \in Tasks :
          /\ Returned(i) /\ got[i][Len(got[i])] = "response"
          /\ ret[i].value.http_status = Some(404)
          /\ ret[i].value.final_url = Some(REDIRECT_URL)
          /\ \E k \in 1..Len(results) : results[k] = ret[i].value

\* probe i ended in classify_transport_error: it returned an outcome and no
\* request of it got a response
TransportClassified(i) ==
    /\ Returned(i)
    /\ \A j \in 1..Len(got[i]) : got[i][j] # "response"

\* C20: a probe that is not skipped has at least one candidate, and when it
\* ends in classify_transport_error at least one request was sent and has
\* failed, so that last_exc is an exception and not None
C20_LastExcNeverNone ==
    \A i \in Tasks :
        /\ (pc[i] # "pending" /\ ~Skipped(domains[i]) /\ i \in Admitted) => urls[i] # <<>>
        /\ TransportClassified(i) =>
              /\ sent[i] # <<>>
              /\ raised[i] # <<>>
              /\ last_exc[i] # None
              /\ last_exc[i] = Some(raised[i][Len(raised[i])])
              /\ ret[i].value.notes # <<"n", "o", "n", "e">>

\* the only candidate of http://a timed out and the probe ended in
\* classify_transport_error with that exception in last_exc
C20_Witness ==
    \E i \in Tasks :
        /\ TransportClassified(i)
        /\ urls[i] = <<<<"h", "t", "t", "p", ":", "/", "/", "a">>>>
        /\ last_exc[i] = Some(TIMEOUT_ERROR)
        /\ ret[i].value.notes = <<"t", "i", "m", "e", "o", "u", "t", ":", " ", "t", "i", "m", "e", "d", " ", "o", "u", "t">>

\* ------------------------------------------------------------------------
\* Termination (specification SpecLive)
\* ------------------------------------------------------------------------

\* run() has written its report and every domain that is not skipped has an
\* outcome in it
Terminated ==
    /\ mainpc = "done"
    /\ report # None
    /\ \A i \in Tasks :
          ~IgnoredLine(domains[i]) =>
              \E k \in 1..Len(report[1].rows) : report[1].rows[k].domain = domains[i]

\* C18: under fair scheduling, with every request ending in a response or a
\* failure, the run over every input file eventually terminates with an
\* outcome for every domain that is not skipped, and every worker that waits
\* for a slot of the semaphore eventually gets one
C18_Terminates ==
    /\ <>Terminated
    /\ \A i \in 1..MaxTasks :
          (i \in Tasks /\ pc[i] = "pending") ~> (i \in Tasks /\ pc[i] # "pending")

\* the run over a file of three domains, one more than MAX_CONCURRENCY, has
\* terminated with three outcomes
C18_Witness ==
    /\ lines = OverCapFile
    /\ Len(domains) > MAX_CONCURRENCY
    /\ Terminated
    /\ Len(results) = 3

====
